---- MODULE Spec2Model ----
(***************************************************************************)
(* State-machine model of src/main.py: the GNSSAnalyzer class and the      *)
(* __main__ pipeline that drives it.                                       *)
(*                                                                         *)
(* Two programs are modelled over the same analyzer state:                 *)
(*   Spec     the __main__ script (lines 211-219): one analyzer, the six   *)
(*            methods called once each in the script's order;              *)
(*   SpecAPI  a client that holds one analyzer and calls load_data,        *)
(*            fetch_usgs_earthquakes and run_optimization in any order,    *)
(*            any number of times, catching what they raise.               *)
(*                                                                         *)
(* Numbers: epochs are small integers, T_relax is in tenths of a day       *)
(* (320.2 days = 3202), a value is an integer or NaN.  The three           *)
(* components e/n/u (and se/sn/su) are assigned together from the same     *)
(* frame, so the model keeps the east component e and its sigma se.        *)
(***************************************************************************)
EXTENDS Integers, Sequences, FiniteSets

VARIABLES
    pc,              \* position of the caller (script line or client state)
    df_enu,          \* self.df_enu: None or the parsed rows
    t,               \* self.t: None or the epoch column
    e,               \* self.e: Unset (attribute never assigned) or the value column
    se,              \* self.se: Unset or the sigma column
    coords,          \* self.coords: NoCoords ({}) or [lat, lon]
    start_date,      \* self.start_date: Unset or first day of the series
    end_date,        \* self.end_date: Unset or last day of the series
    earthquakes,     \* self.earthquakes: list of catalog features
    response,        \* the last answer the catalog request got (NoResponse: none yet)
    optI,            \* iterations of run_optimization's loop completed in this call
    report,          \* what run_optimization printed as its result in this call
    cancelRequested, \* a cancellation was requested during the running search
    requests,        \* network requests sent so far
    writes,          \* output files written so far
    map,             \* content of the saved map file (NoMap: not saved)
    outcome          \* the last method call: its name, what it raised, its status line

vars == <<pc, df_enu, t, e, se, coords, start_date, end_date, earthquakes,
          response, optI, report, cancelRequested, requests, writes, map, outcome>>

analyzer == <<df_enu, t, e, se, coords, start_date, end_date, earthquakes>>

--------------------------------------------------------------------------
(* Bounds of the model *)

MaxRecs == 2

MaxEvents == 1

MaxIO == 3

(* Program constants *)

OptIterations == 10

TRelaxReported == 3202

RingCount == 2

VectorCount == 2

--------------------------------------------------------------------------
(* Values *)

(* An optional value is a sequence of length at most one: TLC compares only
   values of one kind.  None is Python's None (self.df_enu, self.t after
   __init__); Unset is an attribute that was never assigned (reading it
   raises AttributeError). *)
None == <<>>

Unset == <<>>

Some(x) == <<x>>

Val(o) == o[1]

NoResponse == [kind |-> "none"]

NoReport == [status |-> "none"]

NoMap == [saved |-> FALSE]

(* A displacement value is never computed with, only stored and drawn: the
   model keeps it as a literal, NaN standing for every non-finite float. *)
NaN == "nan"

IsFinite(x) == x # NaN

NoCoords == [k \in {} |-> 0]

SeqsUpTo(S, n) == UNION {[1..k -> S] : k \in 0..n}

(* Rows the provider's file may hold: a clean row, a row whose value is not
   finite, and a row whose sigma is not positive. *)
RawRecords ==
    { [t |-> 1, e |-> "0.05", se |-> 1, lat |-> 38, lon |-> 141],
      [t |-> 2, e |-> NaN,    se |-> 1, lat |-> 38, lon |-> 219],
      [t |-> 1, e |-> "0.05", se |-> 0, lat |-> 38, lon |-> 141] }

ProviderFiles == SeqsUpTo(RawRecords, MaxRecs)

(* Features the catalog may return: one dated at the earliest epoch a series
   can hold, one dated after every series' last epoch. *)
Features ==
    { [time |-> 1, mag |-> 7], [time |-> 3, mag |-> 9] }

FeatureLists == SeqsUpTo(Features, MaxEvents)

(* What requests.get may bring back: an exception (timeout, connection), a
   non-200 status, or a 200 whose body is not JSON, is JSON without
   'features', or is JSON with a 'features' list. *)
Responses ==
    { [kind |-> "exception"], [kind |-> "http", status |-> 500],
      [kind |-> "http", status |-> 200, body |-> "notjson"],
      [kind |-> "http", status |-> 200, body |-> "nofeatures"] }
    \cup { [kind |-> "http", status |-> 200, body |-> "geojson", features |-> f] :
             f \in FeatureLists }

(* Lines of load_data's try block that can raise (0: none does): read_csv
   (47), the longitude arithmetic on a non-numeric cell (64), to_datetime
   (70), strftime (72, 73).  Line 61 raises exactly when the file has no
   rows, see LoadDataEffect. *)
FailLines == {0, 47, 64, 70, 72, 73}

Column(rows, name) == [i \in 1..Len(rows) |-> rows[i][name]]

Min(S) == CHOOSE x \in S : \A y \in S : x <= y

Max(S) == CHOOSE x \in S : \A y \in S : x >= y

(* The days of the rows.  A row's date string and its decimal year t name
   the same day: the model keeps the one number for both. *)
Epochs(rows) == {rows[i].t : i \in 1..Len(rows)}

(* line 64: (lon_raw + 180) % 360 - 180 *)
FixLongitude(lon_raw) == ((lon_raw + 180) % 360) - 180

(* d[key] = value on a dict *)
SetKey(d, key, value) ==
    [k \in DOMAIN d \cup {key} |-> IF k = key THEN value ELSE d[k]]

Result(call, raised, msg) == [call |-> call, raised |-> raised, msg |-> msg]

--------------------------------------------------------------------------
(* __init__, lines 26-31, and the start of either caller *)

InitAnalyzer ==
    /\ df_enu = None
    /\ t = None
    /\ e = Unset
    /\ se = Unset
    /\ coords = NoCoords
    /\ start_date = Unset
    /\ end_date = Unset
    /\ earthquakes = <<>>

InitRest ==
    /\ response = NoResponse
    /\ optI = 0
    /\ report = NoReport
    /\ cancelRequested = FALSE
    /\ requests = 0
    /\ writes = 0
    /\ map = NoMap
    /\ outcome = Result("__init__", "none", "none")

Init == pc = "load" /\ InitAnalyzer /\ InitRest

InitAPI == pc = "idle" /\ InitAnalyzer /\ InitRest

--------------------------------------------------------------------------
(* load_data, lines 33-79.  rows is what the provider's file holds, fail the
   line that raises.  Every exception is caught at line 78: the method prints
   and returns normally, keeping what was assigned before the raise. *)

LoadDataEffect(rows, fail) ==
    IF fail = 47
    THEN UNCHANGED <<df_enu, t, e, se, coords, start_date, end_date>>
    ELSE /\ df_enu' = Some(rows)
         /\ t' = Some(Column(rows, "t"))
         /\ e' = Some(Column(rows, "e"))
         /\ se' = Some(Column(rows, "se"))
         /\ IF Len(rows) = 0
            THEN UNCHANGED <<coords, start_date, end_date>>   \* IndexError, line 61
            ELSE /\ coords' = IF fail = 64
                               THEN SetKey(coords, "lat", rows[1].lat)
                               ELSE [lat |-> rows[1].lat,
                                     lon |-> FixLongitude(rows[1].lon)]
                 /\ start_date' = IF fail \in {64, 70, 72} THEN start_date
                                  ELSE Some(Min(Epochs(rows)))
                 /\ end_date' = IF fail \in {64, 70, 72, 73} THEN end_date
                                ELSE Some(Max(Epochs(rows)))

LoadFailed(rows, fail) == fail # 0 \/ Len(rows) = 0

LoadData(next) ==
    /\ requests < MaxIO
    /\ \E rows \in ProviderFiles, fail \in FailLines :
          /\ LoadDataEffect(rows, fail)
          /\ outcome' = Result("load_data", "none",
                               IF LoadFailed(rows, fail) THEN "Error loading data"
                               ELSE "Data loaded successfully")
    /\ requests' = requests + 1
    /\ pc' = next
    /\ UNCHANGED <<earthquakes, response, optI, report, cancelRequested, writes, map>>

--------------------------------------------------------------------------
(* fetch_usgs_earthquakes, lines 81-105.  The params dict is built outside
   the try (lines 86-94): a missing start_date, end_date or coordinate raises
   to the caller before any request is sent. *)

ParamsError ==
    IF start_date = Unset \/ end_date = Unset THEN "AttributeError"
    ELSE IF {"lat", "lon"} \ DOMAIN coords # {} THEN "KeyError"
    ELSE "none"

(* FetchEffect with the list reset before the request: a failed query
   leaves it empty. *)
FetchEffect_ClearsOnFailure(resp) ==
    IF resp.kind = "http" /\ resp.status = 200 /\ resp.body = "geojson"
    THEN /\ earthquakes' = resp.features
         /\ outcome' = Result("fetch_usgs_earthquakes", "none", "Found events")
    ELSE /\ earthquakes' = <<>>
         /\ outcome' = Result("fetch_usgs_earthquakes", "none",
                              IF resp.kind = "http" /\ resp.status # 200
                              THEN "USGS API Error" ELSE "Connection failed")

FetchEffect(resp) ==
    IF resp.kind = "http" /\ resp.status = 200 /\ resp.body = "geojson"
    THEN /\ earthquakes' = resp.features
         /\ outcome' = Result("fetch_usgs_earthquakes", "none", "Found events")
    ELSE /\ UNCHANGED earthquakes
         /\ outcome' = Result("fetch_usgs_earthquakes", "none",
                              IF resp.kind = "http" /\ resp.status # 200
                              THEN "USGS API Error" ELSE "Connection failed")

FetchUsgsEarthquakes(next, onRaise) ==
    /\ IF ParamsError # "none"
       THEN /\ outcome' = Result("fetch_usgs_earthquakes", ParamsError, "none")
            /\ pc' = onRaise
            /\ UNCHANGED <<earthquakes, response, requests>>
       ELSE /\ requests < MaxIO
            /\ \E resp \in Responses :
                  /\ response' = resp
                  /\ FetchEffect(resp)
            /\ requests' = requests + 1
            /\ pc' = next
    /\ UNCHANGED <<df_enu, t, e, se, coords, start_date, end_date,
                   optI, report, cancelRequested, writes, map>>

--------------------------------------------------------------------------
(* plot_time_series_static, lines 107-127, and
   generate_interactive_dashboard, lines 129-150.  Each reads self.e (lines
   113 and 138), which raises AttributeError when load_data never got past
   line 47, and otherwise writes one output file. *)

Render(call, msg, next, onRaise) ==
    /\ IF e = Unset
       THEN /\ outcome' = Result(call, "AttributeError", "none")
            /\ pc' = onRaise
            /\ UNCHANGED writes
       ELSE /\ writes < MaxIO
            /\ writes' = writes + 1
            /\ outcome' = Result(call, "none", msg)
            /\ pc' = next
    /\ UNCHANGED <<analyzer, response, optI, report, cancelRequested, requests, map>>

PlotTimeSeriesStatic(next, onRaise) ==
    Render("plot_time_series_static", "Static plot saved", next, onRaise)

GenerateInteractiveDashboard(next, onRaise) ==
    Render("generate_interactive_dashboard", "Dashboard saved", next, onRaise)

--------------------------------------------------------------------------
(* generate_displacement_map, lines 152-193: returns at once when the
   coords dict is empty (line 156); raises KeyError at line 164 when it
   holds no longitude; otherwise draws two rings, the station, one marker
   per earthquake (none when the list is empty, line 177) and two vectors,
   and saves the map. *)

(* line 181: max((mag - 5) * 4, 3) *)
MarkerRadius(mag) == IF (mag - 5) * 4 > 3 THEN (mag - 5) * 4 ELSE 3

EarthquakeMarkers(eqs) == [i \in 1..Len(eqs) |-> MarkerRadius(eqs[i].mag)]

MapContent ==
    [saved |-> TRUE, station |-> coords, rings |-> RingCount,
     markers |-> EarthquakeMarkers(earthquakes), vectors |-> VectorCount]

(* GenerateDisplacementMap returning early also when there is no
   earthquake to draw. *)
GenerateDisplacementMap_SkipsWithoutEarthquakes(next, onRaise) ==
    /\ IF DOMAIN coords = {} \/ earthquakes = <<>>
       THEN /\ outcome' = Result("generate_displacement_map", "none", "none")
            /\ pc' = next
            /\ UNCHANGED <<map, writes>>
       ELSE IF "lon" \notin DOMAIN coords
       THEN /\ outcome' = Result("generate_displacement_map", "KeyError", "none")
            /\ pc' = onRaise
            /\ UNCHANGED <<map, writes>>
       ELSE /\ writes < MaxIO
            /\ map' = MapContent
            /\ writes' = writes + 1
            /\ outcome' = Result("generate_displacement_map", "none", "Map saved")
            /\ pc' = next
    /\ UNCHANGED <<analyzer, response, optI, report, cancelRequested, requests>>

GenerateDisplacementMap(next, onRaise) ==
    /\ IF DOMAIN coords = {}
       THEN /\ outcome' = Result("generate_displacement_map", "none", "none")
            /\ pc' = next
            /\ UNCHANGED <<map, writes>>
       ELSE IF "lon" \notin DOMAIN coords
       THEN /\ outcome' = Result("generate_displacement_map", "KeyError", "none")
            /\ pc' = onRaise
            /\ UNCHANGED <<map, writes>>
       ELSE /\ writes < MaxIO
            /\ map' = MapContent
            /\ writes' = writes + 1
            /\ outcome' = Result("generate_displacement_map", "none", "Map saved")
            /\ pc' = next
    /\ UNCHANGED <<analyzer, response, optI, report, cancelRequested, requests>>

--------------------------------------------------------------------------
(* run_optimization, lines 205-209: prints a header, sleeps OptIterations
   times, prints the result.  It takes no argument and reads no attribute. *)

OptimizationResult == [status |-> "Complete", t_relax |-> TRelaxReported]

RunOptimizationBegin ==
    /\ optI' = 0
    /\ report' = NoReport
    /\ cancelRequested' = FALSE
    /\ outcome' = Result("run_optimization", "none", "Running Grid Search Optimization")
    /\ pc' = "opt_loop"
    /\ UNCHANGED <<analyzer, response, requests, writes, map>>

(* OptimizationStep writing a progress file in each pass. *)
OptimizationStep_WritesProgress ==
    /\ pc = "opt_loop"
    /\ optI < OptIterations
    /\ optI' = optI + 1
    /\ writes < MaxIO
    /\ writes' = writes + 1
    /\ UNCHANGED <<pc, analyzer, response, report, cancelRequested,
                   requests, map, outcome>>

(* one pass of the loop, lines 207-208 *)
OptimizationStep ==
    /\ pc = "opt_loop"
    /\ optI < OptIterations
    /\ optI' = optI + 1
    /\ UNCHANGED <<pc, analyzer, response, report, cancelRequested,
                   requests, writes, map, outcome>>

(* RunOptimizationEnd reporting a value that depends on the loaded series. *)
RunOptimizationEnd_ReadsSeries(next) ==
    /\ pc = "opt_loop"
    /\ optI = OptIterations
    /\ report' = [status |-> "Complete",
                  t_relax |-> IF t = None THEN 0 ELSE TRelaxReported]
    /\ outcome' = Result("run_optimization", "none", "Optimization Complete")
    /\ pc' = next
    /\ UNCHANGED <<analyzer, response, optI, cancelRequested, requests, writes, map>>

(* line 209 *)
RunOptimizationEnd(next) ==
    /\ pc = "opt_loop"
    /\ optI = OptIterations
    /\ report' = OptimizationResult
    /\ outcome' = Result("run_optimization", "none", "Optimization Complete")
    /\ pc' = next
    /\ UNCHANGED <<analyzer, response, optI, cancelRequested, requests, writes, map>>

(* The environment asks the running search to stop.  run_optimization has no
   parameter, flag or handler through which the request could reach it. *)
RequestCancel ==
    /\ pc = "opt_loop"
    /\ ~cancelRequested
    /\ cancelRequested' = TRUE
    /\ UNCHANGED <<pc, analyzer, response, optI, report, requests, writes, map, outcome>>

--------------------------------------------------------------------------
(* The __main__ script, lines 211-219.  An exception a method raises is not
   caught: the script ends there. *)

MainLoad == pc = "load" /\ LoadData("fetch")

MainFetch == pc = "fetch" /\ FetchUsgsEarthquakes("plot", "crashed")

MainPlot == pc = "plot" /\ PlotTimeSeriesStatic("dash", "crashed")

MainDashboard == pc = "dash" /\ GenerateInteractiveDashboard("opt", "crashed")

MainOptimizationBegin == pc = "opt" /\ RunOptimizationBegin

MainOptimizationEnd == RunOptimizationEnd("map")

MainMap == pc = "map" /\ GenerateDisplacementMap("done", "crashed")

Next ==
    \/ MainLoad
    \/ MainFetch
    \/ MainPlot
    \/ MainDashboard
    \/ MainOptimizationBegin
    \/ OptimizationStep
    \/ RequestCancel
    \/ MainOptimizationEnd
    \/ MainMap

Spec == Init /\ [][Next]_vars

--------------------------------------------------------------------------
(* A client of the class: any sequence of load_data,
   fetch_usgs_earthquakes and run_optimization calls on one analyzer, each
   exception caught by the client. *)

ClientLoad == pc = "idle" /\ LoadData("idle")

ClientFetch == pc = "idle" /\ FetchUsgsEarthquakes("idle", "idle")

ClientOptimizationBegin == pc = "idle" /\ RunOptimizationBegin

ClientOptimizationEnd == RunOptimizationEnd("idle")

NextAPI ==
    \/ ClientLoad
    \/ ClientFetch
    \/ ClientOptimizationBegin
    \/ OptimizationStep
    \/ RequestCancel
    \/ ClientOptimizationEnd

SpecAPI == InitAPI /\ [][NextAPI]_vars

--------------------------------------------------------------------------
(* Vocabulary of the optimizer the specification describes (spec 4.2): a
   grid of T_relax candidates, one residual per grid point (Infinity for a
   singular solve), and the selection rule.  The source has none of these;
   they are here so that the claims about them can be stated against what
   run_optimization does. *)

MaxGrid == 2

MaxResidual == 1

Infinity == MaxResidual + 1

TRelaxCandidates == {100, 500, TRelaxReported}

Grids == SeqsUpTo(TRelaxCandidates, MaxGrid)

ResidualTables(g) == [1..Len(g) -> 0..Infinity]

EveryPointFails(g, r) == \A i \in 1..Len(g) : r[i] = Infinity

(* minimum residual, ties broken by the smallest T_relax *)
Selected(g, r) ==
    LET best == CHOOSE i \in 1..Len(g) :
                   \A j \in 1..Len(g) :
                      r[i] < r[j] \/ (r[i] = r[j] /\ g[i] <= g[j])
    IN g[best]

--------------------------------------------------------------------------
(* Predicates shared by the claims *)

SampleCount == IF t = None THEN 0 ELSE Len(Val(t))

(* In the script the analyzer is fresh, so end_date is set exactly by a
   load_data call that ran to its last assignment (line 73). *)
MainLoadFailed == pc # "load" /\ end_date = Unset

OptimizationReturned ==
    outcome.call = "run_optimization" /\ outcome.msg = "Optimization Complete"

CatalogSucceeded(resp) ==
    resp.kind = "http" /\ resp.status = 200 /\ resp.body = "geojson"

FetchStep ==
    requests' = requests + 1 /\ outcome'.call = "fetch_usgs_earthquakes"

--------------------------------------------------------------------------
(* C1: in every run of the script, once load_data has failed the failure has
   been raised to the caller (the script stopped in load_data) and no
   optimization or rendering step has started. *)
C1_LoadFailureSurfaced ==
    MainLoadFailed =>
        /\ pc = "crashed"
        /\ outcome.call = "load_data"
        /\ outcome.raised # "none"
        /\ writes = 0 /\ map = NoMap /\ report = NoReport /\ optI = 0

(* C2: for every non-empty grid and every table of residuals with a
   solvable point, the result run_optimization reports on a series of at
   least two samples is the candidate of minimum residual, the smallest
   T_relax among equals. *)
C2_MinimumResidualSelected ==
    (OptimizationReturned /\ SampleCount >= 2) =>
        \A g \in Grids \ {<<>>} : \A r \in ResidualTables(g) :
            ~EveryPointFails(g, r) => report.t_relax = Selected(g, r)

(* C4: once cancellation is requested during the search, no further grid
   point is evaluated, and the run ends with a result tagged partial. *)
C4_CancellationHonoured ==
    [][(pc = "opt_loop" /\ cancelRequested) =>
          /\ optI' = optI
          /\ (pc' # "opt_loop" => report'.status = "Partial")]_vars

(* C5: the run fails with ModelUnderdeterminedError exactly when every grid
   point fails (the empty grid and fewer than 2 samples included), and a
   grid of one solvable point returns that candidate. *)
C5_UnderdeterminedRunFails ==
    (pc # "opt_loop" /\ outcome.call = "run_optimization") =>
        \A g \in Grids : \A r \in ResidualTables(g) :
            /\ (EveryPointFails(g, r) \/ SampleCount < 2)
                  <=> outcome.raised = "ModelUnderdeterminedError"
            /\ (Len(g) = 1 /\ ~EveryPointFails(g, r) /\ SampleCount >= 2)
                  => report.t_relax = g[1]

(* C6: after a catalog query that succeeded with zero events the script
   has not failed, the earthquake list is empty, the next step can always
   run, and at the end the optimization has reported and the map is saved
   with the station, the rings and the vectors and no earthquake marker. *)
C6_EmptyCatalogIsNotAnError ==
    (CatalogSucceeded(response) /\ response.features = <<>>) =>
        /\ pc # "crashed"
        /\ outcome.raised = "none"
        /\ earthquakes = <<>>
        /\ pc # "done" => ENABLED Next
        /\ pc = "done" =>
              /\ report = OptimizationResult
              /\ writes = 3
              /\ map = [saved |-> TRUE, station |-> coords, rings |-> RingCount,
                        markers |-> <<>>, vectors |-> VectorCount]

C6_Witness ==
    /\ CatalogSucceeded(response) /\ response.features = <<>>
    /\ pc = "done"
    /\ map.saved /\ map.markers = <<>>

(* C7: after ingestion every sample the analyzer holds has a finite value
   and a positive sigma, and every event it holds lies inside the series'
   time span. *)
C7_IngestionFilters ==
    /\ e # Unset =>
          \A i \in 1..Len(Val(e)) : IsFinite(Val(e)[i]) /\ Val(se)[i] > 0
    /\ SampleCount > 0 =>
          \A k \in 1..Len(earthquakes) :
              /\ Min({Val(t)[i] : i \in 1..SampleCount}) <= earthquakes[k].time
              /\ earthquakes[k].time <= Max({Val(t)[i] : i \in 1..SampleCount})

(* C8: from the start of run_optimization to its end no network request is
   sent and no file is written. *)
C8_NoIODuringSearch ==
    [][(pc = "opt" \/ pc = "opt_loop") =>
          (requests' = requests /\ writes' = writes)]_vars

C8_Witness ==
    /\ pc = "done"
    /\ report = OptimizationResult
    /\ requests = 2
    /\ writes = 3

(* C9: a run_optimization call makes at most OptIterations steps, can always
   take its next step, and when it has returned it has made exactly
   OptIterations steps, raised nothing and reported T_relax = 320.2 days,
   whatever samples and events the analyzer holds. *)
C9_FixedResult ==
    /\ pc = "opt_loop" =>
          /\ optI <= OptIterations
          /\ report = NoReport
          /\ ENABLED (OptimizationStep \/ ClientOptimizationEnd)
    /\ OptimizationReturned =>
          /\ report = [status |-> "Complete", t_relax |-> 3202]
          /\ optI = 10
          /\ outcome.raised = "none"

C9_Witness ==
    /\ OptimizationReturned
    /\ pc = "idle"
    /\ SampleCount = 2
    /\ Len(earthquakes) >= 1

(* C10: a fetch_usgs_earthquakes call that sent its request returns
   normally and leaves samples, coordinates and dates as they were; it
   leaves the earthquake list as it was unless the response is a 200 with a
   'features' entry, and nothing else ever changes the list. *)
C10_FailedFetchChangesNothing ==
    [][/\ FetchStep =>
            /\ outcome'.raised = "none"
            /\ pc' = "idle"
            /\ UNCHANGED <<df_enu, t, e, se, coords, start_date, end_date>>
            /\ earthquakes' = IF CatalogSucceeded(response')
                              THEN response'.features ELSE earthquakes
       /\ earthquakes' # earthquakes =>
            FetchStep /\ CatalogSucceeded(response')]_vars

C10_Witness ==
    /\ outcome.call = "fetch_usgs_earthquakes"
    /\ outcome.msg \in {"USGS API Error", "Connection failed"}
    /\ ~CatalogSucceeded(response)
    /\ Len(earthquakes) > 0
    /\ SampleCount > 0

====
